---- MODULE Spec2Model ----
(***************************************************************************)
(* UART port connection manager of src/api/index.py.                       *)
(*                                                                         *)
(* State: the two module-level dictionaries uart_configs and               *)
(* active_connections, plus the operating-system side of the serial        *)
(* handles (which handles are open on which device).  Operations: the      *)
(* module function configure_uart_port and the Flask view functions        *)
(* configure_port, disconnect_port, test_port and get_ports.               *)
(*                                                                         *)
(* pyserial and the host are the environment: whether a device path        *)
(* exists, whether serial.Serial(...) opens, and whether close() raises    *)
(* are chosen nondeterministically at each call.                           *)
(***************************************************************************)
EXTENDS Integers, FiniteSets, Sequences, TLC

VARIABLES
    uart_configs,        \* index.py:26  port -> [baud_rate, parity, status]
    active_connections,  \* index.py:33  dict port -> serial.Serial object
    open_handles,        \* per device: ids of the serial handles the OS holds open
    last,                \* the most recent call: arguments, environment, outcome
    threads              \* requests in flight in the threaded server

vars == <<uart_configs, active_connections, open_handles, last, threads>>

----------------------------------------------------------------------------
(* Program constants *)

UART_PORTS == {"/dev/ttyAMA0", "/dev/ttyAMA1", "/dev/ttyAMA2"}

VALID_BAUD_RATES == {9600, 19200, 38400, 57600, 115200, 230400, 460800, 921600}

VALID_PARITY == {"none", "even", "odd"}

DefaultConfig == [baud_rate |-> 9600, parity |-> "none", status |-> "disconnected"]

\* Names bound in the module's global namespace when a view function runs:
\* the imports of lines 1-6 and the module-level assignments and defs.
ModuleNames ==
    {"Flask", "redirect", "url_for", "render_template", "CORS", "serial",
     "json", "os", "logging", "app", "logger", "UART_PORTS",
     "VALID_BAUD_RATES", "VALID_PARITY", "uart_configs", "active_connections",
     "get_serial_parity", "configure_uart_port", "index", "catch_all",
     "get_ports", "configure_port", "disconnect_port", "test_port"}

\* A global name lookup succeeds iff the name is bound; otherwise NameError.
Bound(name) == name \in ModuleNames

----------------------------------------------------------------------------
(* Bounds and input sets *)

\* Handles the OS lets the process hold open on one device at a time.
MaxHandles == 2

HandleIds == 1..MaxHandles

\* Port arguments: the known ports and one unknown identifier.
PortInputs == UART_PORTS \cup {"/dev/ttyUSB0"}

\* Baud-rate arguments: a supported rate other than the default, and an
\* unsupported one.
BaudInputs == {115200, 12345}

\* Parity arguments: a supported parity other than the default, and an
\* unsupported one.
ParityInputs == {"even", "mark"}

----------------------------------------------------------------------------
(* Python dictionaries and the pyserial handle *)

DictHas(d, k) == k \in DOMAIN d

DictDel(d, k) == [x \in (DOMAIN d) \ {k} |-> d[x]]

DictSet(d, k, v) == [x \in (DOMAIN d) \cup {k} |-> IF x = k THEN v ELSE d[x]]

EmptyDict == [x \in {} |-> 0]

\* Mutant: every parity string is mapped to serial.PARITY_NONE.
GetSerialParityAlwaysNone(parity_str) == "N"

\* serial.PARITY_NONE, PARITY_EVEN, PARITY_ODD are 'N', 'E', 'O'.
get_serial_parity(parity_str) ==
    CASE parity_str = "none" -> "N"
      [] parity_str = "even" -> "E"
      [] parity_str = "odd"  -> "O"
      [] OTHER               -> "N"

\* ser.is_open of a Serial object h created for device `port`.
IsOpen(open, port, h) == h.id \in open[port]

\* Mutant: close() that does not release the OS handle.
SerialCloseLeaks(open, port, h) == open

\* ser.close(): releases the OS handle (a no-op on a closed object).
SerialClose(open, port, h) == [open EXCEPT ![port] = @ \ {h.id}]

\* serial.Serial(port=..., baudrate=..., parity=...) can open only while the
\* OS has a handle left for the device.
CanOpen(open, port) == open[port] # HandleIds

NewHandleId(open, port) ==
    CHOOSE i \in HandleIds \ open[port] :
        \A j \in HandleIds \ open[port] : i <= j

SerialOpen(open, port, baud_rate, parity) ==
    [id |-> NewHandleId(open, port), baudrate |-> baud_rate,
     parity |-> get_serial_parity(parity)]

----------------------------------------------------------------------------
(* configure_uart_port(port, baud_rate, parity), lines 44-88, run to        *)
(* completion.  env = [close_ok, exists, open_ok] are the outcomes of       *)
(* ser.close(), os.path.exists(port) and serial.Serial(...).  The result    *)
(* holds the three pieces of state after the call, the returned pair        *)
(* (ok, message) and the path taken.                                        *)

\* Mutant: a missing device marks the port as disconnected.
ConfigNotFoundDisconnects(cfg, port) ==
    [cfg EXCEPT ![port].status = "disconnected"]

\* Lines 53-55: the device path is missing; the function returns at once.
ConfigNotFound(cfg, port) == cfg

\* Mutant: the except clauses put the whole entry back to its defaults.
ConfigErrorResets(cfg, port) ==
    [cfg EXCEPT ![port] = [DefaultConfig EXCEPT !.status = "error"]]

\* Lines 81-88: both except clauses set the status and return False.
ConfigError(cfg, port) == [cfg EXCEPT ![port].status = "error"]

\* Mutant: line 74 missing, the stored baud rate is not updated.
ConfigConnectedKeepsBaud(cfg, port, baud_rate, parity) ==
    [cfg EXCEPT ![port].parity = parity, ![port].status = "connected"]

\* Lines 74-76.
ConfigConnected(cfg, port, baud_rate, parity) ==
    [cfg EXCEPT ![port] = [baud_rate |-> baud_rate, parity |-> parity,
                           status |-> "connected"]]

configure_uart_port(cfg, conns, open, port, baud_rate, parity, env) ==
    IF DictHas(conns, port) /\ ~env.close_ok
    THEN \* line 49 raises: line 50 is skipped, handler of lines 85-88
         [cfg |-> ConfigError(cfg, port), conns |-> conns, open |-> open,
          ok |-> FALSE, message |-> "Unexpected error", path |-> "close_raised"]
    ELSE
    LET \* lines 48-50
        open1  == IF DictHas(conns, port)
                  THEN SerialClose(open, port, conns[port]) ELSE open
        conns1 == IF DictHas(conns, port) THEN DictDel(conns, port) ELSE conns
    IN  IF ~env.exists
        THEN [cfg |-> ConfigNotFound(cfg, port), conns |-> conns1,
              open |-> open1, ok |-> FALSE,
              message |-> "Port does not exist", path |-> "not_found"]
        ELSE IF ~(env.open_ok /\ CanOpen(open1, port))
        THEN \* line 58 raises serial.SerialException, lines 81-84
             [cfg |-> ConfigError(cfg, port), conns |-> conns1,
              open |-> open1, ok |-> FALSE,
              message |-> "Failed to configure", path |-> "open_failed"]
        ELSE LET ser == SerialOpen(open1, port, baud_rate, parity)
             IN  [cfg   |-> ConfigConnected(cfg, port, baud_rate, parity),
                  conns |-> DictSet(conns1, port, ser),
                  open  |-> [open1 EXCEPT ![port] = @ \cup {ser.id}],
                  ok |-> TRUE, message |-> "Port configured successfully",
                  path |-> "opened"]

----------------------------------------------------------------------------
(* The view functions.  Each returns through jsonify(...); a failed lookup  *)
(* of a global name raises NameError, which the function's own              *)
(* `except Exception` catches, and whose handler returns through jsonify    *)
(* again.                                                                   *)

\* The call ended with an exception leaving the view function.
Escaped(exc) ==
    [returned |-> FALSE, success |-> FALSE, message |-> exc, code |-> 500]

\* return jsonify({'success': ..., 'message': ...}), code
Respond(success, message, code) ==
    IF Bound("jsonify")
    THEN [returned |-> TRUE, success |-> success, message |-> message,
          code |-> code]
    ELSE Escaped("NameError")

NoData == [port |-> "-", baud_rate |-> 0, parity |-> "-"]

\* configure_port(), lines 123-160; data is the request's JSON body.
configure_port(cfg, conns, open, data, env) ==
    LET same(resp, path) == [cfg |-> cfg, conns |-> conns, open |-> open,
                             resp |-> resp, path |-> path]
    IN  IF ~Bound("request")
        THEN \* line 127 raises NameError, handler of lines 158-160
             same(Respond(FALSE, "Server error", 500), "name_error")
        ELSE IF data = NoData
        THEN same(Respond(FALSE, "No data provided", 400), "no_data")
        ELSE IF data.port \notin UART_PORTS
        THEN same(Respond(FALSE, "Invalid port specified", 400), "invalid_port")
        ELSE IF data.baud_rate \notin VALID_BAUD_RATES
        THEN same(Respond(FALSE, "Invalid baud rate", 400), "invalid_baud")
        ELSE IF data.parity \notin VALID_PARITY
        THEN same(Respond(FALSE, "Invalid parity setting", 400),
                  "invalid_parity")
        ELSE LET r == configure_uart_port(cfg, conns, open, data.port,
                                          data.baud_rate, data.parity, env)
             IN  [cfg |-> r.cfg, conns |-> r.conns, open |-> r.open,
                  resp |-> Respond(r.ok, r.message,
                                   IF r.ok THEN 200 ELSE 500),
                  path |-> r.path]

\* Mutant: the status of every port is reset, not only the named one.
ConfigDisconnectedAll(cfg, port) ==
    [q \in DOMAIN cfg |-> [cfg[q] EXCEPT !.status = "disconnected"]]

\* Mutant: disconnecting removes the port's configuration entry.
ConfigDisconnectedDrops(cfg, port) == DictDel(cfg, port)

\* Line 175.
ConfigDisconnected(cfg, port) == [cfg EXCEPT ![port].status = "disconnected"]

\* disconnect_port(port), lines 162-186.
disconnect_port(cfg, conns, open, port, env) ==
    IF port \notin UART_PORTS
    THEN [cfg |-> cfg, conns |-> conns, open |-> open,
          resp |-> Respond(FALSE, "Invalid port specified", 400),
          path |-> "invalid_port"]
    ELSE IF DictHas(conns, port) /\ ~env.close_ok
    THEN \* line 171 raises: lines 172-182 are skipped, handler 184-186
         [cfg |-> cfg, conns |-> conns, open |-> open,
          resp |-> Respond(FALSE, "Error disconnecting port", 500),
          path |-> "close_raised"]
    ELSE [cfg   |-> ConfigDisconnected(cfg, port),
          conns |-> IF DictHas(conns, port) THEN DictDel(conns, port)
                    ELSE conns,
          open  |-> IF DictHas(conns, port)
                    THEN SerialClose(open, port, conns[port]) ELSE open,
          resp  |-> Respond(TRUE, "Port disconnected", 200),
          path  |-> "disconnected"]

\* Mutant: a probe that finds the handle closed marks the port as failed.
TestEffectHeals(cfg, port, path) ==
    IF path = "closed" THEN [cfg EXCEPT ![port].status = "error"] ELSE cfg

\* Lines 192-212 hold no assignment to uart_configs: whichever return the
\* probe reaches, the configuration is left as it is.
TestEffect(cfg, port, path) == cfg

\* test_port(port), lines 188-216: reads only.
test_port(cfg, conns, open, port) ==
    IF port \notin UART_PORTS
    THEN [resp |-> Respond(FALSE, "Invalid port specified", 400),
          path |-> "invalid_port"]
    ELSE IF ~DictHas(conns, port)
    THEN [resp |-> Respond(FALSE, "Port not connected", 400),
          path |-> "not_connected"]
    ELSE IF IsOpen(open, port, conns[port])
    THEN [resp |-> Respond(TRUE, "Port is active and ready", 200),
          path |-> "open"]
    ELSE [resp |-> Respond(FALSE, "Port is not open", 500),
          path |-> "closed"]

\* get_ports(), lines 114-121: no try block around the jsonify call.
get_ports(cfg) ==
    IF Bound("jsonify")
    THEN [returned |-> TRUE, success |-> TRUE, message |-> "ports",
          code |-> 200, ports |-> cfg]
    ELSE Escaped("NameError")

----------------------------------------------------------------------------
(* Requests served one at a time *)

\* The outcomes of the OS calls a request can make: ser.close() is made only
\* for a stored connection.
Env(port) ==
    [close_ok : IF DictHas(active_connections, port) THEN BOOLEAN ELSE {TRUE},
     exists : BOOLEAN, open_ok : BOOLEAN]

\* No OS call is made.
Quiet == [close_ok |-> TRUE, exists |-> TRUE, open_ok |-> TRUE]

ThreadIds == {1, 2}

Idle == [pc |-> "idle", op |-> "-", port |-> "-", baud_rate |-> 0,
         parity |-> "-", ser |-> 0]

PrevStatus(port) ==
    IF port \in UART_PORTS THEN uart_configs[port].status ELSE "-"

Call(op, port, baud_rate, parity, env, path, resp) ==
    [op |-> op, port |-> port, baud_rate |-> baud_rate, parity |-> parity,
     env |-> env, path |-> path, returned |-> resp.returned, success |-> resp.success,
     message |-> resp.message, code |-> resp.code,
     prev_status |-> PrevStatus(port),
     prev_conn |-> DictHas(active_connections, port)]

Init ==
    /\ uart_configs = [p \in UART_PORTS |-> DefaultConfig]
    /\ active_connections = EmptyDict
    /\ open_handles = [p \in UART_PORTS |-> {}]
    /\ last = [op |-> "start", port |-> "-", baud_rate |-> 0, parity |-> "-",
               env |-> Quiet, path |-> "-", returned |-> TRUE,
               success |-> TRUE, message |-> "-", code |-> 0,
               prev_status |-> "-",
               prev_conn |-> FALSE]
    /\ threads = [t \in ThreadIds |-> Idle]

\* A caller inside the process invokes configure_uart_port with arguments
\* that configure_port's validation (lines 137-144) lets through.
ConfigureUartPort ==
    \E port \in UART_PORTS, baud_rate \in BaudInputs \cap VALID_BAUD_RATES,
       parity \in ParityInputs \cap VALID_PARITY :
      \E env \in Env(port) :
        LET r == configure_uart_port(uart_configs, active_connections,
                                     open_handles, port, baud_rate, parity, env)
        IN  /\ uart_configs' = r.cfg
            /\ active_connections' = r.conns
            /\ open_handles' = r.open
            /\ last' = Call("configure_uart_port", port, baud_rate, parity,
                            env, r.path,
                            [returned |-> TRUE, success |-> r.ok,
                             message |-> r.message, code |-> 0])
            /\ UNCHANGED threads

\* POST /api/configure
ConfigurePort ==
    \E data \in [port : PortInputs, baud_rate : BaudInputs,
                  parity : ParityInputs] \cup {NoData} :
      \E env \in IF Bound("request") THEN Env(data.port) ELSE {Quiet} :
        LET r == configure_port(uart_configs, active_connections,
                                open_handles, data, env)
        IN  /\ uart_configs' = r.cfg
            /\ active_connections' = r.conns
            /\ open_handles' = r.open
            /\ last' = Call("configure_port", data.port, data.baud_rate,
                            data.parity, env, r.path, r.resp)
            /\ UNCHANGED threads

\* POST /api/disconnect/<port>
DisconnectPort ==
    \E port \in PortInputs :
      \E env \in [close_ok : IF DictHas(active_connections, port)
                               THEN BOOLEAN ELSE {TRUE},
                    exists : {TRUE}, open_ok : {TRUE}] :
        LET r == disconnect_port(uart_configs, active_connections,
                                 open_handles, port, env)
        IN  /\ uart_configs' = r.cfg
            /\ active_connections' = r.conns
            /\ open_handles' = r.open
            /\ last' = Call("disconnect_port", port, 0, "-", env, r.path,
                            r.resp)
            /\ UNCHANGED threads

\* POST /api/test/<port>
TestPort ==
    \E port \in PortInputs :
        LET r == test_port(uart_configs, active_connections, open_handles,
                           port)
        IN  /\ last' = Call("test_port", port, 0, "-", Quiet, r.path, r.resp)
            /\ uart_configs' = TestEffect(uart_configs, port, r.path)
            /\ UNCHANGED <<active_connections, open_handles, threads>>

\* GET /api/ports
GetPorts ==
    /\ last' = Call("get_ports", "-", 0, "-", Quiet, "-",
                    get_ports(uart_configs))
    /\ UNCHANGED <<uart_configs, active_connections, open_handles, threads>>

Next ==
    \/ ConfigureUartPort
    \/ ConfigurePort
    \/ DisconnectPort
    \/ TestPort
    \/ GetPorts

Spec == Init /\ [][Next]_vars

----------------------------------------------------------------------------
(* Requests served concurrently.  The development server started by        *)
(* app.run() (line 219) serves each request in a thread of its own, and no  *)
(* lock guards the two dictionaries, so the statements of two calls         *)
(* interleave.  Each action below is one statement of configure_uart_port,  *)
(* disconnect_port or test_port, run by thread t.  The environment raises no       *)
(* fault here: the device exists, close() succeeds and serial.Serial(...)   *)
(* opens while the OS has a handle left.                                    *)

\* Ports the concurrent requests name.
ConcPorts == {"/dev/ttyAMA0"}

At(t, pc) == threads[t].pc = pc

Goto(t, pc) == threads' = [threads EXCEPT ![t].pc = pc]

Finish(t) == threads' = [threads EXCEPT ![t] = Idle]

\* A thread picks up a request.
Begin(t) ==
    /\ At(t, "idle")
    /\ \E op \in {"configure_uart_port", "disconnect_port"},
          port \in ConcPorts,
          baud_rate \in BaudInputs \cap VALID_BAUD_RATES,
          parity \in ParityInputs \cap VALID_PARITY :
            threads' = [threads EXCEPT ![t] =
                IF op = "configure_uart_port"
                THEN [pc |-> "cfg_check", op |-> op, port |-> port,
                      baud_rate |-> baud_rate, parity |-> parity, ser |-> 0]
                ELSE [pc |-> "dis_check", op |-> op, port |-> port,
                      baud_rate |-> 0, parity |-> "-", ser |-> 0]]
    /\ UNCHANGED <<uart_configs, active_connections, open_handles, last>>

\* Line 48: if port in active_connections
CfgCheck(t) ==
    /\ At(t, "cfg_check")
    /\ Goto(t, IF DictHas(active_connections, threads[t].port)
               THEN "cfg_close" ELSE "cfg_exists")
    /\ UNCHANGED <<uart_configs, active_connections, open_handles, last>>

\* Line 49: active_connections[port].close(); KeyError if the entry is gone
CfgClose(t) ==
    LET port == threads[t].port
    IN  /\ At(t, "cfg_close")
        /\ IF DictHas(active_connections, port)
           THEN /\ open_handles' = SerialClose(open_handles, port,
                                               active_connections[port])
                /\ Goto(t, "cfg_del")
           ELSE /\ Goto(t, "cfg_except")
                /\ UNCHANGED open_handles
        /\ UNCHANGED <<uart_configs, active_connections, last>>

\* Line 50: del active_connections[port]; KeyError if the entry is gone
CfgDel(t) ==
    LET port == threads[t].port
    IN  /\ At(t, "cfg_del")
        /\ IF DictHas(active_connections, port)
           THEN /\ active_connections' = DictDel(active_connections, port)
                /\ Goto(t, "cfg_exists")
           ELSE /\ Goto(t, "cfg_except")
                /\ UNCHANGED active_connections
        /\ UNCHANGED <<uart_configs, open_handles, last>>

\* Lines 53-55: os.path.exists(port) holds
CfgExists(t) ==
    /\ At(t, "cfg_exists")
    /\ Goto(t, "cfg_open")
    /\ UNCHANGED <<uart_configs, active_connections, open_handles, last>>

\* Lines 58-68: ser = serial.Serial(...)
CfgOpen(t) ==
    LET port == threads[t].port
        ser  == SerialOpen(open_handles, port, threads[t].baud_rate,
                           threads[t].parity)
    IN  /\ At(t, "cfg_open")
        /\ IF CanOpen(open_handles, port)
           THEN /\ open_handles' = [open_handles EXCEPT ![port] =
                                       @ \cup {ser.id}]
                /\ threads' = [threads EXCEPT ![t].pc = "cfg_store",
                                              ![t].ser = ser]
           ELSE /\ Goto(t, "cfg_except")
                /\ UNCHANGED open_handles
        /\ UNCHANGED <<uart_configs, active_connections, last>>

\* Line 71: active_connections[port] = ser
CfgStore(t) ==
    /\ At(t, "cfg_store")
    /\ active_connections' = DictSet(active_connections, threads[t].port,
                                     threads[t].ser)
    /\ Goto(t, "cfg_baud")
    /\ UNCHANGED <<uart_configs, open_handles, last>>

\* Line 74
CfgBaud(t) ==
    /\ At(t, "cfg_baud")
    /\ uart_configs' = [uart_configs EXCEPT
                           ![threads[t].port].baud_rate = threads[t].baud_rate]
    /\ Goto(t, "cfg_parity")
    /\ UNCHANGED <<active_connections, open_handles, last>>

\* Line 75
CfgParity(t) ==
    /\ At(t, "cfg_parity")
    /\ uart_configs' = [uart_configs EXCEPT
                           ![threads[t].port].parity = threads[t].parity]
    /\ Goto(t, "cfg_status")
    /\ UNCHANGED <<active_connections, open_handles, last>>

\* Lines 76-79: status = 'connected'; return True
CfgStatus(t) ==
    /\ At(t, "cfg_status")
    /\ uart_configs' = [uart_configs EXCEPT
                           ![threads[t].port].status = "connected"]
    /\ Finish(t)
    /\ UNCHANGED <<active_connections, open_handles, last>>

\* Lines 81-88: an except clause sets status = 'error'; return False
CfgExcept(t) ==
    /\ At(t, "cfg_except")
    /\ uart_configs' = ConfigError(uart_configs, threads[t].port)
    /\ Finish(t)
    /\ UNCHANGED <<active_connections, open_handles, last>>

\* Lines 166-170: the port is known; if port in active_connections
DisCheck(t) ==
    /\ At(t, "dis_check")
    /\ Goto(t, IF DictHas(active_connections, threads[t].port)
               THEN "dis_close" ELSE "dis_status")
    /\ UNCHANGED <<uart_configs, active_connections, open_handles, last>>

\* Line 171: active_connections[port].close(); on KeyError the handler of
\* lines 184-186 ends the call
DisClose(t) ==
    LET port == threads[t].port
    IN  /\ At(t, "dis_close")
        /\ IF DictHas(active_connections, port)
           THEN /\ open_handles' = SerialClose(open_handles, port,
                                               active_connections[port])
                /\ Goto(t, "dis_del")
           ELSE /\ Finish(t)
                /\ UNCHANGED open_handles
        /\ UNCHANGED <<uart_configs, active_connections, last>>

\* Line 172: del active_connections[port]; on KeyError the handler of
\* lines 184-186 ends the call
DisDel(t) ==
    LET port == threads[t].port
    IN  /\ At(t, "dis_del")
        /\ IF DictHas(active_connections, port)
           THEN /\ active_connections' = DictDel(active_connections, port)
                /\ Goto(t, "dis_status")
           ELSE /\ Finish(t)
                /\ UNCHANGED active_connections
        /\ UNCHANGED <<uart_configs, open_handles, last>>

\* Lines 175-182: status = 'disconnected'; the call ends at the return
DisStatus(t) ==
    /\ At(t, "dis_status")
    /\ uart_configs' = ConfigDisconnected(uart_configs, threads[t].port)
    /\ Finish(t)
    /\ UNCHANGED <<active_connections, open_handles, last>>

\* A thread picks up a test request, for a known or an unknown port.
BeginTest(t) ==
    /\ At(t, "idle")
    /\ \E port \in ConcPorts \cup (PortInputs \ UART_PORTS) :
          threads' = [threads EXCEPT ![t] =
              [pc |-> "tst_check", op |-> "test_port", port |-> port,
               baud_rate |-> 0, parity |-> "-", ser |-> 0]]
    /\ UNCHANGED <<uart_configs, active_connections, open_handles, last>>

\* The test request of thread t ends at the return named by path.
TestEnds(t, path, resp) ==
    /\ last' = Call("test_port", threads[t].port, 0, "-", Quiet, path, resp)
    /\ uart_configs' = TestEffect(uart_configs, threads[t].port, path)
    /\ Finish(t)

\* Lines 192-196: port not in UART_PORTS; port not in active_connections
TstCheck(t) ==
    LET port == threads[t].port
    IN  /\ At(t, "tst_check")
        /\ IF port \notin UART_PORTS
           THEN TestEnds(t, "invalid_port",
                         Respond(FALSE, "Invalid port specified", 400))
           ELSE IF ~DictHas(active_connections, port)
           THEN TestEnds(t, "not_connected",
                         Respond(FALSE, "Port not connected", 400))
           ELSE Goto(t, "tst_get") /\ UNCHANGED <<uart_configs, last>>
        /\ UNCHANGED <<active_connections, open_handles>>

\* Line 198: ser = active_connections[port]; on KeyError the handler of
\* lines 214-216 ends the call
TstGet(t) ==
    LET port == threads[t].port
    IN  /\ At(t, "tst_get")
        /\ IF DictHas(active_connections, port)
           THEN /\ threads' = [threads EXCEPT
                                 ![t].pc = "tst_probe",
                                 ![t].ser = active_connections[port]]
                /\ UNCHANGED <<uart_configs, last>>
           ELSE TestEnds(t, "key_error",
                         Respond(FALSE, "Error testing port", 500))
        /\ UNCHANGED <<active_connections, open_handles>>

\* Lines 201-212: if ser.is_open
TstProbe(t) ==
    LET port == threads[t].port
    IN  /\ At(t, "tst_probe")
        /\ IF IsOpen(open_handles, port, threads[t].ser)
           THEN TestEnds(t, "open",
                         Respond(TRUE, "Port is active and ready", 200))
           ELSE TestEnds(t, "closed",
                         Respond(FALSE, "Port is not open", 500))
        /\ UNCHANGED <<active_connections, open_handles>>

NextConc ==
    \E t \in ThreadIds :
        \/ Begin(t)
        \/ BeginTest(t) \/ TstCheck(t) \/ TstGet(t) \/ TstProbe(t)
        \/ CfgCheck(t) \/ CfgClose(t) \/ CfgDel(t) \/ CfgExists(t)
        \/ CfgOpen(t) \/ CfgStore(t) \/ CfgBaud(t) \/ CfgParity(t)
        \/ CfgStatus(t) \/ CfgExcept(t)
        \/ DisCheck(t) \/ DisClose(t) \/ DisDel(t) \/ DisStatus(t)

SpecConc == Init /\ [][NextConc]_vars

AllIdle == \A t \in ThreadIds : At(t, "idle")

\* C4: however the statements of two requests on one port interleave, once
\* both have ended no open handle is missing from active_connections, and
\* the port has a stored handle exactly when its status is 'connected'.
C4_NoOrphanNoMismatch ==
    AllIdle =>
        \A p \in UART_PORTS :
            /\ \A i \in open_handles[p] :
                  DictHas(active_connections, p)
                      /\ active_connections[p].id = i
            /\ DictHas(active_connections, p)
                  <=> uart_configs[p].status = "connected"

----------------------------------------------------------------------------
(* Properties of requests served one at a time *)

Status(p) == uart_configs[p].status

Stored(p) == DictHas(active_connections, p)

LastIsConfigure == last.op = "configure_uart_port"

\* C1: after any sequence of calls, every known port has an entry in
\* active_connections if and only if its status is 'connected'.
C1_StoredIffConnected ==
    \A p \in UART_PORTS : Stored(p) <=> Status(p) = "connected"

\* C2: a Configure call made while the device path does not exist returns
\* failure, sets the status to 'error' and leaves no entry for the port,
\* whatever the status was before.
C2_MissingDeviceSetsError ==
    (LastIsConfigure /\ ~last.env.exists) =>
        /\ ~last.success
        /\ Status(last.port) = "error"
        /\ ~Stored(last.port)

\* C3: a Disconnect call on a known port always reaches its success return
\* and ends with status 'disconnected' and no entry for the port, also when
\* closing the stored handle raises.
C3_DisconnectAlwaysDisconnects ==
    (last.op = "disconnect_port" /\ last.port \in UART_PORTS) =>
        /\ last.path = "disconnected"
        /\ Status(last.port) = "disconnected"
        /\ ~Stored(last.port)

\* C5: a Configure call with valid arguments whose device path exists and
\* whose open succeeds (the close of a previously stored handle not having
\* raised) returns success; afterwards the status is 'connected', the stored
\* baud_rate and parity are the requested ones, and active_connections
\* holds an open handle with the requested settings.
C5_ConfigureSuccess ==
    (LastIsConfigure /\ last.env.close_ok /\ last.env.exists
        /\ last.env.open_ok) =>
        /\ last.success
        /\ last.path = "opened"
        /\ uart_configs[last.port] =
              [baud_rate |-> last.baud_rate, parity |-> last.parity,
               status |-> "connected"]
        /\ Stored(last.port)
        /\ IsOpen(open_handles, last.port, active_connections[last.port])
        /\ active_connections[last.port].baudrate = last.baud_rate
        /\ active_connections[last.port].parity =
              get_serial_parity(last.parity)

\* C5 witness: a successful Configure of a port that was connected before.
C5_Witness ==
    /\ LastIsConfigure /\ last.env.close_ok /\ last.env.exists
    /\ last.env.open_ok /\ last.success
    /\ last.prev_status = "connected" /\ last.prev_conn

\* C6: every Configure call with valid arguments that returns failure ends
\* with status 'error' and no entry for the port in active_connections.
C6_FailureLeavesErrorNoHandle ==
    (LastIsConfigure /\ ~last.success) =>
        /\ Status(last.port) = "error"
        /\ ~Stored(last.port)

\* C7: at most one handle is open per port, and every open handle is the
\* one stored in active_connections for its port.
C7_AtMostOneOpenHandle ==
    \A p \in UART_PORTS :
        /\ Cardinality(open_handles[p]) <= 1
        /\ \A i \in open_handles[p] :
              Stored(p) /\ active_connections[p].id = i

\* C7 witness: a connected port was configured again and holds one handle.
C7_Witness ==
    /\ LastIsConfigure /\ last.path = "opened" /\ last.prev_conn
    /\ Cardinality(open_handles[last.port]) = 1

\* C8: for a port identifier outside UART_PORTS, Configure, Disconnect and
\* Test return the validation failure 'Invalid port specified' and change
\* neither uart_configs nor active_connections.
C8_UnknownPortRejected ==
    [][(last' # last /\ last'.port \notin UART_PORTS
          /\ last'.op \in {"configure_port", "disconnect_port", "test_port"}
          /\ last'.port # NoData.port) =>
        /\ last'.returned /\ ~last'.success
        /\ last'.message = "Invalid port specified"
        /\ UNCHANGED <<uart_configs, active_connections, open_handles>>]_vars

\* C9: a Configure request for a known port with an unsupported baud rate
\* or parity is rejected with a validation failure naming the field (baud
\* rate before parity) and changes no state.
C9_InvalidSettingRejected ==
    [][(last' # last /\ last'.op = "configure_port"
          /\ last'.port \in UART_PORTS
          /\ (last'.baud_rate \notin VALID_BAUD_RATES
                \/ last'.parity \notin VALID_PARITY)) =>
        /\ last'.returned /\ ~last'.success
        /\ last'.message = IF last'.baud_rate \notin VALID_BAUD_RATES
                           THEN "Invalid baud rate"
                           ELSE "Invalid parity setting"
        /\ UNCHANGED <<uart_configs, active_connections, open_handles>>]_vars

\* C10: a call on port p leaves the configuration, the stored connection
\* and the open handles of every other port q unchanged.
C10_OtherPortsUntouched ==
    [][\A q \in UART_PORTS : q # last'.port =>
          /\ uart_configs'[q] = uart_configs[q]
          /\ Stored(q)' = Stored(q)
          /\ (Stored(q) => active_connections'[q] = active_connections[q])
          /\ open_handles'[q] = open_handles[q]]_vars

\* C10 witness: a Disconnect changed one port while another is connected.
C10_Witness ==
    /\ last.op = "disconnect_port" /\ last.path = "disconnected"
    /\ last.prev_conn
    /\ \E q \in UART_PORTS : q # last.port /\ Stored(q)

----------------------------------------------------------------------------
(* Properties of test_port, get_ports and of the stored configuration *)

\* C11: no step of a Test request changes uart_configs, active_connections
\* or the open handles, whichever return it reaches; a Test that finds the
\* stored handle closed ends in failure.
C11_TestChangesNothing ==
    [][\A t \in ThreadIds :
          (threads[t].op = "test_port" /\ threads'[t].pc # threads[t].pc) =>
            /\ UNCHANGED <<uart_configs, active_connections, open_handles>>
            /\ (threads[t].pc = "tst_probe"
                  /\ ~IsOpen(open_handles, threads[t].port, threads[t].ser))
                 => (last'.path = "closed" /\ ~last'.success)]_vars

\* C11 witness: a Test found the stored handle closed; the entry is still
\* stored afterwards.
C11_Witness ==
    /\ last.op = "test_port" /\ last.path = "closed"
    /\ Stored(last.port)
    /\ ~IsOpen(open_handles, last.port, active_connections[last.port])

\* C12: a Test that directly follows a failed Configure of the same port
\* ends at the 'Port not connected' return, and a Test of a known port ends
\* there exactly when the port has no entry in active_connections.
C12_NotConnectedIffNoEntry ==
    [][(last'.op = "test_port" /\ last'.port \in UART_PORTS) =>
          /\ (last'.path = "not_connected") <=> ~Stored(last'.port)
          /\ (LastIsConfigure /\ ~last.success /\ last.port = last'.port)
                => last'.path = "not_connected"]_vars

\* C13: of two Disconnect calls in a row on a known port, both reach the
\* success return, both leave status 'disconnected', and the second
\* changes nothing.
C13_DisconnectIdempotent ==
    [][(last.op = "disconnect_port" /\ last'.op = "disconnect_port"
          /\ last.port \in UART_PORTS /\ last'.port = last.port) =>
          /\ last.path = "disconnected" /\ last'.path = "disconnected"
          /\ Status(last.port) = "disconnected"
          /\ Status(last.port)' = "disconnected"
          /\ UNCHANGED <<uart_configs, active_connections, open_handles>>]_vars

\* C14: the keys of uart_configs are exactly UART_PORTS and the keys of
\* active_connections are among UART_PORTS, in every reachable state.
C14_KeySetsFixed ==
    /\ DOMAIN uart_configs = UART_PORTS
    /\ DOMAIN active_connections \subseteq UART_PORTS

\* C14 witness: a request naming an unknown port was served while a known
\* port is connected.
C14_Witness ==
    /\ last.op = "disconnect_port" /\ last.port \notin UART_PORTS
    /\ \E p \in UART_PORTS : Stored(p)

\* C15: a fresh process has every port at 9600 baud, parity 'none', status
\* 'disconnected' and no connection; ListStatus never fails, reports the
\* current uart_configs and changes no state.
C15_ListStatus ==
    /\ (last.op = "start") =>
          /\ \A p \in UART_PORTS : uart_configs[p] = DefaultConfig
          /\ active_connections = EmptyDict
    /\ (last.op = "get_ports") =>
          /\ last.returned /\ last.success
          /\ get_ports(uart_configs).ports = uart_configs

\* C16: every call ends with a structured result; no exception leaves a
\* view function.
C16_NoEscapingError == last.returned

\* C17: the stored baud_rate and parity of a port start at 9600 and 'none',
\* are set to the requested values by a successful Configure of that port,
\* and are left unchanged by every other call, failed Configure calls
\* included.
C17_SettingsFollowLastSuccess ==
    /\ \A p \in UART_PORTS :
          uart_configs[p].baud_rate = 9600 /\ uart_configs[p].parity = "none"
    /\ [][\A p \in UART_PORTS :
            IF last'.op = "configure_uart_port" /\ last'.success
                 /\ last'.port = p
            THEN /\ uart_configs'[p].baud_rate = last'.baud_rate
                 /\ uart_configs'[p].parity = last'.parity
            ELSE /\ uart_configs'[p].baud_rate = uart_configs[p].baud_rate
                 /\ uart_configs'[p].parity = uart_configs[p].parity]_vars

\* C17 witness: a Configure failed on a port that holds settings from an
\* earlier successful Configure.
C17_Witness ==
    /\ LastIsConfigure /\ ~last.success
    /\ uart_configs[last.port].baud_rate = 115200
    /\ uart_configs[last.port].parity = "even"

\* C18 as stated: the baud rate and parity a stored handle was opened with
\* equal the port's stored baud_rate and parity.
C18_HandleEqualsConfig ==
    \A p \in UART_PORTS : Stored(p) =>
        /\ active_connections[p].baudrate = uart_configs[p].baud_rate
        /\ active_connections[p].parity = uart_configs[p].parity

\* C18 amended: a stored handle was opened with the port's stored baud_rate
\* and with the pyserial constant of the stored parity: 'N' for 'none',
\* 'E' for 'even', 'O' for 'odd'.
C18_HandleMatchesConfig ==
    \A p \in UART_PORTS : Stored(p) =>
        /\ active_connections[p].baudrate = uart_configs[p].baud_rate
        /\ uart_configs[p].parity = "none" => active_connections[p].parity = "N"
        /\ uart_configs[p].parity = "even" => active_connections[p].parity = "E"
        /\ uart_configs[p].parity = "odd" => active_connections[p].parity = "O"

\* C18 witness: a port configured with parity 'even' holds a handle.
C18_Witness ==
    \E p \in UART_PORTS :
        Stored(p) /\ uart_configs[p].parity = "even"
            /\ uart_configs[p].baud_rate = 115200

\* Some Configure or Disconnect call changes the status of port p.
CanChangeStatus(p) ==
    \/ \E baud_rate \in BaudInputs \cap VALID_BAUD_RATES,
          parity \in ParityInputs \cap VALID_PARITY, env \in Env(p) :
            configure_uart_port(uart_configs, active_connections,
                                open_handles, p, baud_rate, parity,
                                env).cfg[p].status # Status(p)
    \/ \E env \in Env(p) :
            disconnect_port(uart_configs, active_connections, open_handles,
                            p, env).cfg[p].status # Status(p)

\* C19: a status becomes 'connected' only by a successful Configure of the
\* port, 'disconnected' only by a Disconnect of the port, 'error' only by a
\* failed Configure of the port; and in every state some Configure or
\* Disconnect call changes the status of each port.
C19_StatusSteps ==
    /\ [][\A p \in UART_PORTS : Status(p)' # Status(p) =>
            /\ last'.port = p
            /\ Status(p)' = "connected" =>
                  (last'.op = "configure_uart_port" /\ last'.success)
            /\ Status(p)' = "disconnected" => last'.op = "disconnect_port"
            /\ Status(p)' = "error" =>
                  (last'.op = "configure_uart_port" /\ ~last'.success)]_vars
    /\ [](\A p \in UART_PORTS : CanChangeStatus(p))

\* C19 witness: a port that was in 'error' was connected, and later calls
\* can still change it.
C19_Witness ==
    /\ LastIsConfigure /\ last.success /\ last.prev_status = "error"
    /\ Status(last.port) = "connected"
    /\ CanChangeStatus(last.port)

====
